---------------------------- MODULE Spec2Model ----------------------------
(***************************************************************************)
(* A model of main.py, the recursive scraper: scrape(url, depth,           *)
(* base_folder), download_image, get_domain_folder and save_text, with the *)
(* interpreter's call stack made explicit.  The web (the pages behind the  *)
(* URLs, their links and images, and whether a GET succeeds) is the        *)
(* environment: it is a fixed function of the URL that the model           *)
(* materialises the first time the URL is requested.                       *)
(***************************************************************************)
EXTENDS Naturals, Sequences, FiniteSets, TLC

(***************************************************************************)
(* Bounds of the model.                                                    *)
(***************************************************************************)
MaxLinks == 2      \* <a href> elements per page
MaxImgs  == 2      \* <img src> elements per page
MaxElems == 4      \* <a href> and <img src> elements in the whole web
MaxLen   == 4      \* length of the strings img_name is applied to
MaxRerun == 3      \* elements of the webs on which the program is run twice

(***************************************************************************)
(* main.py:8.  The source sets 100; the model scales the constant down so  *)
(* that a crawl over a handful of URLs reaches the limit.                  *)
(***************************************************************************)
maxRekrusion == 3

(***************************************************************************)
(* Strings the code inspects character by character are tuples of          *)
(* one-character strings.                                                  *)
(***************************************************************************)
Url(netloc, path) == [netloc |-> netloc, path |-> path]

Urls ==
    { Url(<<"a", ".", "b">>, "/"),
      Url(<<"a", ".", "b">>, "/x"),
      Url(<<"a", "_", "b">>, "/"),
      Url(<<"c", ".", "d">>, "/") }

ImgOk    == <<"a", ".", "b", "/", "p", " ", "n", "?", "v", ".", "j">>
ImgSlash == <<"a", ".", "b", "/">>
ImgUrls  == { ImgOk, ImgSlash }

None == <<>>

VARIABLES
    visitedUrls,   \* main.py:11
    stack,         \* the active invocations of scrape, outermost first
    outcome,       \* "idle", "running", "done" (scrape returned), "crashed"
    seed,          \* the URL read at main.py:93, None before
    dirs,          \* directories on disk
    textFile,      \* text files on disk: set of [path, content]
    imgFile,       \* image files on disk: set of [path, content]
    web,           \* the pages: what a GET of each URL returns
    imgWeb,        \* the images: what a GET of each image URL returns
    hist,          \* per URL: what the run has done for it so far
    run,           \* 1: first run of the process, 2: the re-run
    prev,          \* what the first run left on disk
    naming,        \* an application of img_name: its argument and result
    cut,           \* the URLs an invocation was skipped for by depth alone
    fetchLog       \* the page GETs issued so far, in order

vars == <<visitedUrls, stack, outcome, seed, dirs, textFile, imgFile, web,
          imgWeb, hist, run, prev,
                   naming, cut, fetchLog>>

-----------------------------------------------------------------------------
(***************************************************************************)
(* String helpers.                                                         *)
(***************************************************************************)
\* str.replace(old, new) for one-character old and new
Replace(s, old, new) == [k \in 1..Len(s) |-> IF s[k] = old THEN new ELSE s[k]]

\* s.split(c)[0]: the part before the first c, all of s when there is none
SplitFirst(s, c) ==
    IF \E k \in 1..Len(s) : s[k] = c
    THEN SubSeq(s, 1, (CHOOSE k \in 1..Len(s) :
                          /\ s[k] = c
                          /\ \A j \in 1..(k - 1) : s[j] # c) - 1)
    ELSE s

\* os.path.basename: the part after the last "/", all of s when there is none
Basename(s) ==
    IF \E k \in 1..Len(s) : s[k] = "/"
    THEN SubSeq(s, (CHOOSE k \in 1..Len(s) :
                       /\ s[k] = "/"
                       /\ \A j \in (k + 1)..Len(s) : s[j] # "/") + 1, Len(s))
    ELSE s

\* the characters of the model's alphabet that \w matches
WordChars ==
    { "a", "b", "c", "d", "e", "f", "g", "h", "i", "j", "k", "l", "m", "n",
      "o", "p", "q", "r", "s", "t", "u", "v", "w", "x", "y", "z", "0", "1",
      "2", "3", "4", "5", "6", "7", "8", "9", "_" }

\* the period is replaced too
SanitizeWordOnly(s) ==
    [k \in 1..Len(s) |-> IF s[k] \in WordChars THEN s[k] ELSE "_"]

\* re.sub(r"[^\w\.]", "_", s)
Sanitize(s) ==
    [k \in 1..Len(s) |-> IF s[k] \in WordChars \cup {"."} THEN s[k] ELSE "_"]

\* main.py:30-31
img_name(img_url) == Sanitize(Basename(SplitFirst(img_url, "?")))

-----------------------------------------------------------------------------
(***************************************************************************)
(* The file system.                                                        *)
(***************************************************************************)
\* os.path.join(folder, name)
Join(folder, name) == Append(folder, name)

\* os.makedirs(path, exist_ok=True): the directory and its parents
MakeDirs(ds, path) == ds \cup { SubSeq(path, 1, n) : n \in 1..Len(path) }

\* a write that leaves an existing file as it is
WriteFileKeepsOld(files, path, content) ==
    IF \E f \in files : f.path = path THEN files
    ELSE files \cup { [path |-> path, content |-> content] }

\* open(path, "w") and write: truncate and write
WriteFile(files, path, content) ==
    { f \in files : f.path # path } \cup { [path |-> path, content |-> content] }

\* main.py:13-19, the value returned
get_domain_folder(url) == <<"data", Replace(url.netloc, ".", "_")>>

-----------------------------------------------------------------------------
(***************************************************************************)
(* The web.                                                                *)
(***************************************************************************)
NoPage == [known |-> FALSE, ok |-> FALSE, links |-> <<>>, imgs |-> <<>>]

\* a page whose GET fails, a page whose GET succeeds
ErrorPage == [known |-> TRUE, ok |-> FALSE, links |-> <<>>, imgs |-> <<>>]

Page(links, imgs) ==
    [known |-> TRUE, ok |-> TRUE, links |-> links, imgs |-> imgs]

Min(a, b) == IF a <= b THEN a ELSE b

\* the lists of at most n link URLs, of at most n image URLs
LinkLists(n) == UNION { [1..k -> Urls] : k \in 0..Min(n, MaxLinks) }
ImgLists(n)  == UNION { [1..k -> ImgUrls] : k \in 0..Min(n, MaxImgs) }

\* the <a href> and <img src> elements of the pages of S
RECURSIVE Elems(_)
Elems(S) ==
    IF S = {} THEN 0
    ELSE LET u == CHOOSE v \in S : TRUE
         IN  Len(web[u].links) + Len(web[u].imgs) + Elems(S \ {u})

\* the pages a GET of url may return: the page the web holds for the URL
Responses(url) ==
    IF web[url].known THEN { web[url] }
    ELSE LET left == MaxElems - Elems(Urls)
         IN  { ErrorPage } \cup
             UNION { { Page(l, m) : m \in ImgLists(left - Len(l)) } :
                     l \in LinkLists(left) }

\* the text of the elements of the page of url, an abstract token per page
PageText(url) == url

\* fetch, text, img, calls: the page GETs issued for the URL, the text files
\* written for it, the image fetches dispatched and the recursive calls made by
\* its invocation; depth, root: where its page was fetched and its text stored;
\* sent: the image URLs its invocation dispatched a fetch for, in order
NoHist == [fetch |-> 0, text |-> 0, img |-> 0, calls |-> 0, depth |-> 0,
           root |-> None, sent |-> <<>>]

-----------------------------------------------------------------------------
(***************************************************************************)
(* scrape, main.py:48-90.                                                  *)
(***************************************************************************)
\* the depth is handed on as it is, without the increment of the call
FrameSameDepth(url, depth, base_folder) ==
    [url |-> url, depth |-> IF depth = 0 THEN 0 ELSE depth - 1,
     base_folder |-> base_folder, pc |-> "entry", i |-> 0]

Frame(url, depth, base_folder) ==
    [url |-> url, depth |-> depth, base_folder |-> base_folder,
     pc |-> "entry", i |-> 0]

Top == stack[Len(stack)]

\* the gate without its depth test
GatedVisitedOnly(url, depth) == url \in visitedUrls

\* main.py:50
Gated(url, depth) == url \in visitedUrls \/ depth >= maxRekrusion

\* the set is replaced by the one URL
MarkVisitedOnly(url) == {url}

\* the URL is not recorded
MarkVisitedForgets(url) == visitedUrls

\* main.py:54
MarkVisited(url) == visitedUrls \cup {url}

\* every invocation derives the folder from its own URL
BaseFolderOwn(f) == get_domain_folder(f.url)

\* main.py:57-58
BaseFolder(f) ==
    IF f.base_folder = None THEN get_domain_folder(f.url) ELSE f.base_folder

\* a return of the innermost invocation: its caller's loop moves to the next link
Pop(stk) ==
    LET rest == SubSeq(stk, 1, Len(stk) - 1)
    IN  IF rest = <<>> THEN rest
        ELSE [rest EXCEPT ![Len(rest)].i = @ + 1]

Returned(stk) == IF stk = <<>> THEN "done" ELSE "running"

\* the except clause without its return: the invocation goes on
AfterFetchErrorGoesOn(stk) == [stk EXCEPT ![Len(stk)].pc = "text"]

\* main.py:69-71, the except clause: log and return
AfterFetchError(stk) == Pop(stk)

\* main.py:93-94
Start(u) ==
    /\ outcome = "idle"
    /\ seed' = u
    /\ stack' = << Frame(u, 0, None) >>
    /\ outcome' = "running"
    /\ UNCHANGED <<visitedUrls, dirs, textFile, imgFile, web, imgWeb, hist,
                   run, prev,
                   naming, cut, fetchLog>>

\* main.py:50-51
Skip ==
    /\ outcome = "running"
    /\ Top.pc = "entry"
    /\ Gated(Top.url, Top.depth)
    /\ stack' = Pop(stack)
    /\ outcome' = Returned(stack')
    /\ cut' = IF Top.url \in visitedUrls THEN cut ELSE cut \cup {Top.url}
    /\ UNCHANGED <<visitedUrls, seed, dirs, textFile, imgFile, web, imgWeb,
                   hist, run, prev,
                   naming, fetchLog>>

\* main.py:53-64
Enter ==
    /\ outcome = "running"
    /\ Top.pc = "entry"
    /\ ~ Gated(Top.url, Top.depth)
    /\ visitedUrls' = MarkVisited(Top.url)
    /\ LET base == BaseFolder(Top)
       IN  /\ dirs' = MakeDirs(MakeDirs(MakeDirs(dirs, base),
                                        Join(base, "img")), Join(base, "text"))
           /\ stack' = [stack EXCEPT ![Len(stack)].base_folder = base,
                                     ![Len(stack)].pc = "fetch"]
    /\ UNCHANGED <<outcome, seed, textFile, imgFile, web, imgWeb, hist, run,
                   prev,
                   naming, cut, fetchLog>>

\* an entry of the log of page GETs
Fetched(url, depth, ok) == [url |-> url, depth |-> depth, ok |-> ok]

\* main.py:66-71, requests.get raises or raise_for_status raises
FetchFail ==
    /\ outcome = "running"
    /\ Top.pc = "fetch"
    /\ \E page \in Responses(Top.url) :
         /\ ~ page.ok
         /\ web' = [web EXCEPT ![Top.url] = page]
    /\ hist' = [hist EXCEPT ![Top.url].fetch = @ + 1,
                            ![Top.url].depth = Top.depth]
    /\ fetchLog' = Append(fetchLog, Fetched(Top.url, Top.depth, FALSE))
    /\ stack' = AfterFetchError(stack)
    /\ outcome' = Returned(stack')
    /\ UNCHANGED <<visitedUrls, seed, dirs, textFile, imgFile, imgWeb, run,
                   prev,
                   naming, cut>>

\* main.py:66-74, the page is retrieved and parsed
FetchOk ==
    /\ outcome = "running"
    /\ Top.pc = "fetch"
    /\ \E page \in Responses(Top.url) :
         /\ page.ok
         /\ web' = [web EXCEPT ![Top.url] = page]
    /\ hist' = [hist EXCEPT ![Top.url].fetch = @ + 1,
                            ![Top.url].depth = Top.depth]
    /\ fetchLog' = Append(fetchLog, Fetched(Top.url, Top.depth, TRUE))
    /\ stack' = [stack EXCEPT ![Len(stack)].pc = "text"]
    /\ UNCHANGED <<visitedUrls, outcome, seed, dirs, textFile, imgFile,
                   imgWeb, run, prev,
                   naming, cut>>


\* the links are turned to before the images are through
AfterImageToLinks(f, k) == [f EXCEPT !.pc = "links", !.i = 1]

\* where the invocation goes once image k of its page has been dealt with
AfterImage(f, k) ==
    IF k < Len(web[f.url].imgs)
    THEN [f EXCEPT !.pc = "imgs", !.i = k + 1]
    ELSE [f EXCEPT !.pc = "links", !.i = 1]

\* main.py:77-79 and save_text, main.py:43-46
SaveText ==
    /\ outcome = "running"
    /\ Top.pc = "text"
    /\ textFile' = WriteFile(textFile,
                             Join(Join(Top.base_folder, "text"), Top.depth),
                             PageText(Top.url))
    /\ hist' = [hist EXCEPT ![Top.url].text = @ + 1,
                            ![Top.url].root = Top.base_folder]
    /\ stack' = [stack EXCEPT ![Len(stack)] = AfterImage(Top, 0)]
    /\ UNCHANGED <<visitedUrls, outcome, seed, dirs, imgFile, web, imgWeb,
                   run, prev,
                   naming, cut, fetchLog>>

\* the image URL the loop of main.py:83 is at
CurImg == web[Top.url].imgs[Top.i]

\* the outcomes a GET of img_url may have: the one the web holds for it
ImgResponses(img_url) ==
    IF imgWeb[img_url] = "unknown" THEN {"ok", "fail"} ELSE { imgWeb[img_url] }

\* open(path, "wb") succeeds: the path names a file, not a directory
IsFileName(name) == name \notin { <<>>, <<".">>, <<".", ".">> }

\* main.py:84 and download_image with a RequestException, main.py:26-27, 39-40
ImageFail ==
    /\ outcome = "running"
    /\ Top.pc = "imgs"
    /\ "fail" \in ImgResponses(CurImg)
    /\ imgWeb' = [imgWeb EXCEPT ![CurImg] = "fail"]
    /\ hist' = [hist EXCEPT ![Top.url].img = @ + 1,
                            ![Top.url].sent = Append(@, CurImg)]
    /\ stack' = [stack EXCEPT ![Len(stack)] = AfterImage(Top, Top.i)]
    /\ UNCHANGED <<visitedUrls, outcome, seed, dirs, textFile, imgFile, web,
                   run, prev,
                   naming, cut, fetchLog>>

\* main.py:84 and download_image, main.py:26-38
ImageSaved ==
    /\ outcome = "running"
    /\ Top.pc = "imgs"
    /\ "ok" \in ImgResponses(CurImg)
    /\ IsFileName(img_name(CurImg))
    /\ imgWeb' = [imgWeb EXCEPT ![CurImg] = "ok"]
    /\ imgFile' = WriteFile(imgFile,
                            Join(Join(Top.base_folder, "img"), img_name(CurImg)),
                            CurImg)
    /\ hist' = [hist EXCEPT ![Top.url].img = @ + 1,
                            ![Top.url].sent = Append(@, CurImg)]
    /\ stack' = [stack EXCEPT ![Len(stack)] = AfterImage(Top, Top.i)]
    /\ UNCHANGED <<visitedUrls, outcome, seed, dirs, textFile, web, run, prev,
                   naming, cut, fetchLog>>

\* main.py:84 and download_image, main.py:26-35: open raises an OSError, which
\* no except clause of download_image or scrape catches
ImageCrash ==
    /\ outcome = "running"
    /\ Top.pc = "imgs"
    /\ "ok" \in ImgResponses(CurImg)
    /\ ~ IsFileName(img_name(CurImg))
    /\ imgWeb' = [imgWeb EXCEPT ![CurImg] = "ok"]
    /\ hist' = [hist EXCEPT ![Top.url].img = @ + 1,
                            ![Top.url].sent = Append(@, CurImg)]
    /\ stack' = <<>>
    /\ outcome' = "crashed"
    /\ UNCHANGED <<visitedUrls, seed, dirs, textFile, imgFile, web, run, prev,
                   naming, cut, fetchLog>>

\* the links are gone through in an order that differs from run to run
CurLinkUnordered ==
    LET links == web[Top.url].links
    IN  IF run = 2 THEN links[Len(links) + 1 - Top.i] ELSE links[Top.i]

\* the link the loop of main.py:88 is at
CurLink == web[Top.url].links[Top.i]

\* the test of the link is left out
LinkWantedAlways(link) == TRUE

\* main.py:89
LinkWanted(link) == link \notin visitedUrls

\* main.py:88-90, the recursive call
Call ==
    /\ outcome = "running"
    /\ Top.pc = "links"
    /\ Top.i <= Len(web[Top.url].links)
    /\ LinkWanted(CurLink)
    /\ stack' = Append(stack, Frame(CurLink, Top.depth + 1, Top.base_folder))
    /\ hist' = [hist EXCEPT ![Top.url].calls = @ + 1]
    /\ UNCHANGED <<visitedUrls, outcome, seed, dirs, textFile, imgFile, web,
                   imgWeb, run, prev,
                   naming, cut, fetchLog>>

\* main.py:88-89, a link already visited
SkipLink ==
    /\ outcome = "running"
    /\ Top.pc = "links"
    /\ Top.i <= Len(web[Top.url].links)
    /\ ~ LinkWanted(CurLink)
    /\ stack' = [stack EXCEPT ![Len(stack)].i = @ + 1]
    /\ UNCHANGED <<visitedUrls, outcome, seed, dirs, textFile, imgFile, web,
                   imgWeb, hist, run, prev,
                   naming, cut, fetchLog>>

\* main.py:88-90, the loop is over and scrape returns
Return ==
    /\ outcome = "running"
    /\ Top.pc = "links"
    /\ Top.i > Len(web[Top.url].links)
    /\ stack' = Pop(stack)
    /\ outcome' = Returned(stack')
    /\ UNCHANGED <<visitedUrls, seed, dirs, textFile, imgFile, web, imgWeb,
                   hist, run, prev,
                   naming, cut, fetchLog>>

\* main.py:11, the set a new process starts with
FreshVisited == {}

\* the program is run again on the same input, the same web and an empty
\* output directory: main.py:11 and main.py:93-94
Rerun ==
    /\ outcome \in {"done", "crashed"}
    /\ run = 1
    /\ Elems(Urls) <= MaxRerun
    /\ run' = 2
    /\ prev' = [dirs |-> dirs, textFile |-> textFile, imgFile |-> imgFile,
                outcome |-> outcome, visitedUrls |-> visitedUrls]
    /\ visitedUrls' = FreshVisited
    /\ dirs' = {}
    /\ textFile' = {}
    /\ imgFile' = {}
    /\ hist' = [u \in Urls |-> NoHist]
    /\ stack' = << Frame(seed, 0, None) >>
    /\ outcome' = "running"
    /\ cut' = {}
    /\ fetchLog' = <<>>
    /\ UNCHANGED <<seed, web, imgWeb, naming>>

NoNaming == [in |-> <<>>, out |-> <<>>, done |-> FALSE]

NoPrev == [dirs |-> {}, textFile |-> {}, imgFile |-> {}, outcome |-> "idle",
           visitedUrls |-> {}]

Init ==
    /\ visitedUrls = FreshVisited
    /\ stack = <<>>
    /\ outcome = "idle"
    /\ seed = None
    /\ dirs = {}
    /\ textFile = {}
    /\ imgFile = {}
    /\ web = [u \in Urls |-> NoPage]
    /\ imgWeb = [u \in ImgUrls |-> "unknown"]
    /\ hist = [u \in Urls |-> NoHist]
    /\ run = 1
    /\ prev = NoPrev
    /\ naming = NoNaming
    /\ cut = {}
    /\ fetchLog = <<>>

\* the strings img_name is applied to
NameAlphabet == {"p", " ", "?", ".", "/"}

Example ==
    <<"p", "h", "o", "t", "o", " ", "n", "a", "m", "e", "?", "v", "=", "2",
      ".", "j", "p", "g">>

NameInputs ==
    UNION { [1..n -> NameAlphabet] : n \in 0..MaxLen } \cup { Example }

InitName ==
    /\ visitedUrls = FreshVisited
    /\ stack = <<>>
    /\ outcome = "idle"
    /\ seed = None
    /\ dirs = {}
    /\ textFile = {}
    /\ imgFile = {}
    /\ web = [u \in Urls |-> NoPage]
    /\ imgWeb = [u \in ImgUrls |-> "unknown"]
    /\ hist = [u \in Urls |-> NoHist]
    /\ run = 1
    /\ prev = NoPrev
    /\ \E s \in NameInputs : naming = [in |-> s, out |-> <<>>, done |-> FALSE]
    /\ cut = {}
    /\ fetchLog = <<>>

\* main.py:30-31 applied to one URL
ApplyName ==
    /\ ~ naming.done
    /\ naming' = [naming EXCEPT !.out = img_name(naming.in), !.done = TRUE]
    /\ UNCHANGED <<visitedUrls, stack, outcome, seed, dirs, textFile, imgFile,
                   web, imgWeb, hist, run, prev, cut, fetchLog>>

Next ==
    \/ \E u \in Urls : Start(u)
    \/ Skip
    \/ Enter
    \/ FetchFail
    \/ FetchOk
    \/ SaveText
    \/ ImageFail
    \/ ImageSaved
    \/ ImageCrash
    \/ Call
    \/ SkipLink
    \/ Return

Spec == Init /\ [][Next]_vars

\* the scheduling of a single-threaded program: it keeps running until it ends
FairSpec == Spec /\ WF_vars(Next)

NextRerun == Next \/ Rerun

SpecRerun == Init /\ [][NextRerun]_vars

SpecName == InitName /\ [][ApplyName]_vars

-----------------------------------------------------------------------------
(***************************************************************************)
(* The claims.                                                             *)
(***************************************************************************)
Finished == outcome \in {"done", "crashed"}

\* the <a href> elements of successfully fetched pages that point to u
LinksTo(u) ==
    { <<v, k>> \in Urls \X (1..MaxLinks) :
        /\ web[v].ok
        /\ hist[v].fetch > 0
        /\ k <= Len(web[v].links)
        /\ web[v].links[k] = u }

\* C1: the page fetch of scrape is issued at most once per URL during one
\* run, whether the first fetch of the URL succeeded or failed.
C1_NoUrlFetchedTwice == \A u \in Urls : hist[u].fetch <= 1

\* a finished crawl in which a page whose fetch failed and a page whose fetch
\* succeeded were each linked to twice
C1_Witness ==
    /\ outcome = "done"
    /\ \E u, w \in Urls :
         /\ hist[u].fetch = 1 /\ ~ web[u].ok /\ Cardinality(LinksTo(u)) >= 2
         /\ hist[w].fetch = 1 /\ web[w].ok /\ Cardinality(LinksTo(w)) >= 2

\* the innermost invocation has a depth of at least the maximum
AtLimit == outcome = "running" /\ Top.depth >= maxRekrusion

\* C2: an invocation whose depth is at least the maximum is skipped: it stays
\* at its entry, its next step is its return and changes neither the Visited
\* Set nor the disk nor what has been fetched, dispatched or called; so every
\* page was fetched, and every text file written, at a depth below the maximum.
C2_DepthLimit ==
    /\ [](\A k \in 1..Len(stack) :
            stack[k].depth >= maxRekrusion => stack[k].pc = "entry")
    /\ [](\A u \in Urls : hist[u].fetch > 0 => hist[u].depth < maxRekrusion)
    /\ [](\A f \in textFile : f.path[Len(f.path)] < maxRekrusion)
    /\ [][AtLimit =>
            /\ Len(stack') = Len(stack) - 1
            /\ UNCHANGED <<visitedUrls, dirs, textFile, imgFile, hist, web,
                           imgWeb>>]_vars

\* an invocation at the maximum depth, for a URL not yet visited
C2_Witness == AtLimit /\ Top.url \notin visitedUrls

\* the innermost invocation issues its page fetch and the fetch fails
FetchFails == outcome = "running" /\ Top.pc = "fetch" /\ ~ web'[Top.url].ok

\* C3: when the page fetch of a node fails, its invocation writes no text file,
\* dispatches no image fetch and makes no recursive call; the node stays in
\* the Visited Set and is not fetched again; its invocation returns, the parent
\* moves to its next link, and the Visited Set and the files stay as they are.
C3_FetchFailure ==
    /\ [](\A u \in Urls :
            (hist[u].fetch > 0 /\ ~ web[u].ok) =>
                /\ hist[u].text = 0
                /\ hist[u].img = 0
                /\ hist[u].calls = 0
                /\ hist[u].fetch = 1
                /\ u \in visitedUrls)
    /\ [][FetchFails =>
            /\ Len(stack') = Len(stack) - 1
            /\ \A k \in 1..Len(stack') :
                 /\ stack'[k].url = stack[k].url
                 /\ stack'[k].pc = stack[k].pc
                 /\ stack'[k].i = IF k = Len(stack') THEN stack[k].i + 1
                                                      ELSE stack[k].i
            /\ UNCHANGED <<visitedUrls, dirs, textFile, imgFile>>]_vars

\* the fetch of a link failed and its parent is at its next link, with the
\* text file of the parent on disk
C3_Witness ==
    /\ outcome = "running"
    /\ Top.pc = "links"
    /\ Top.i >= 2
    /\ Top.i <= Len(web[Top.url].links)
    /\ LET u == web[Top.url].links[Top.i - 1]
       IN  hist[u].fetch = 1 /\ ~ web[u].ok /\ CurLink # u
    /\ textFile # {}

\* the URLs at most n links away from the seed, following the links of the
\* pages that were fetched successfully
RECURSIVE Within(_)
Within(n) ==
    IF n = 0 THEN {seed}
    ELSE Within(n - 1) \cup
         { u \in Urls : \E v \in Within(n - 1) :
                           /\ web[v].ok
                           /\ hist[v].fetch > 0
                           /\ \E k \in 1..Len(web[v].links) :
                                web[v].links[k] = u }

\* C4: when the crawl has run to its end, every URL that can be reached from
\* the seed over the links of successfully fetched pages in fewer hops than
\* the maximum depth is in the Visited Set.
C4_AllReachableVisited ==
    outcome = "done" => Within(maxRekrusion - 1) \subseteq visitedUrls

\* C5: the crawl goes on until the top-level invocation has returned: whenever
\* the program can take no further step, the top-level scrape has reached Done.
C5_CrawlReachesDone == outcome = "done" \/ ENABLED Next

\* the crawl stops, one way or the other
C5_Stops == <>Finished

\* C6: a URL is in the Visited Set before its page fetch is issued and for as
\* long as its invocation is active, and no URL is being processed by two
\* active invocations of the call chain at once.
C6_VisitedBeforeFetch ==
    /\ \A k \in 1..Len(stack) :
         stack[k].pc # "entry" => stack[k].url \in visitedUrls
    /\ \A u \in Urls : hist[u].fetch > 0 => u \in visitedUrls
    /\ \A j, k \in 1..Len(stack) :
         (j < k /\ stack[j].pc # "entry" /\ stack[k].pc # "entry")
             => stack[j].url # stack[k].url

\* an invocation is at a link to itself and has a caller
C6_Witness ==
    /\ outcome = "running"
    /\ Len(stack) >= 2
    /\ Top.pc = "links"
    /\ Top.i <= Len(web[Top.url].links)
    /\ CurLink = Top.url

\* C7: the text of every page is written under the root directory derived
\* from the host of the page, so that two pages are stored under the same root
\* directory exactly when they have the same host.
C7_OwnHostRoot ==
    /\ \A u \in Urls :
         hist[u].text > 0 =>
             hist[u].root = <<"data", Replace(u.netloc, ".", "_")>>
    /\ \A u, v \in Urls :
         (hist[u].text > 0 /\ hist[v].text > 0) =>
             (u.netloc = v.netloc <=> hist[u].root = hist[v].root)

\* C8: whatever the outcome of an image fetch, the invocation that dispatched
\* it goes on with the next image of its page, or with its links after the
\* last image, and the Visited Set and the text files are as before.
C8_ImageFailureContained ==
    [][(outcome = "running" /\ Top.pc = "imgs") =>
          /\ outcome' = "running"
          /\ Len(stack') = Len(stack)
          /\ stack'[Len(stack)].url = Top.url
          /\ IF Top.i < Len(web[Top.url].imgs)
             THEN /\ stack'[Len(stack)].pc = "imgs"
                  /\ stack'[Len(stack)].i = Top.i + 1
             ELSE /\ stack'[Len(stack)].pc = "links"
                  /\ stack'[Len(stack)].i = 1
          /\ UNCHANGED <<visitedUrls, textFile>>]_vars

\* the paths of a set of files
Paths(files) == { f.path : f \in files }

\* C9: a second run on the same seed and the same web, from an empty Visited
\* Set and an empty output directory, ends with the directories, the file
\* names and the text file contents of the first run.
C9_RerunReproduces ==
    (run = 2 /\ Finished) =>
        /\ dirs = prev.dirs
        /\ textFile = prev.textFile
        /\ Paths(imgFile) = Paths(prev.imgFile)

\* a second run that has ended with two text files and an image on disk
C9_Witness ==
    /\ run = 2
    /\ outcome = "done"
    /\ Cardinality(textFile) >= 2
    /\ imgFile # {}

\* s holds c at none of the positions a..b
Free(s, c, a, b) == \A k \in a..b : s[k] # c

\* n is the part of s between its last "/" and its first "?", the "/" looked
\* for before the "?" only, with every character that is neither a word
\* character nor a period replaced by "_"
IsSegmentName(s, n) ==
    \E a, b \in 0..Len(s) :
        /\ a <= b
        /\ b = Len(s) \/ s[b + 1] = "?"
        /\ Free(s, "?", 1, b)
        /\ a = 0 \/ s[a] = "/"
        /\ Free(s, "/", a + 1, b)
        /\ Len(n) = b - a
        /\ \A k \in 1..(b - a) :
             n[k] = IF s[a + k] \in WordChars \cup {"."} THEN s[a + k] ELSE "_"

\* C10 as stated: the image filename is the last path segment of the URL with
\* the query string stripped and every character outside the alphanumeric,
\* underscore and period class replaced by "_", and photo name?v=2.jpg is
\* saved as photo_name.jpg.
C10_ExampleKeepsExtension ==
    naming.done =>
        /\ IsSegmentName(naming.in, naming.out)
        /\ naming.in = Example =>
             naming.out = <<"p", "h", "o", "t", "o", "_", "n", "a", "m", "e",
                            ".", "j", "p", "g">>

\* C10 as amended: the image filename is the part of the URL before its first
\* "?", cut after the last "/" of that part, with every character outside the
\* alphanumeric, underscore and period class replaced by "_", and
\* photo name?v=2.jpg is saved as photo_name.
C10_SegmentName ==
    naming.done =>
        /\ IsSegmentName(naming.in, naming.out)
        /\ naming.in = Example =>
             naming.out = <<"p", "h", "o", "t", "o", "_", "n", "a", "m", "e">>

\* img_name has been applied to photo name?v=2.jpg
C10_Witness == naming.done /\ naming.in = Example

\* the innermost invocation is at its entry and will be skipped
AtSkip ==
    /\ outcome = "running"
    /\ Top.pc = "entry"
    /\ Top.url \in visitedUrls \/ Top.depth >= maxRekrusion

\* C11: an invocation that is skipped, its URL being visited or its depth at
\* the maximum, returns at once and leaves the Visited Set, the directories,
\* the files and the fetches as they are, so a URL skipped for its depth alone
\* is not marked visited; and an invocation that finds a URL unvisited at a
\* depth below the maximum is not skipped: it marks the URL and goes on to
\* fetch it.
C11_SkipHasNoEffect ==
    /\ [][AtSkip =>
            /\ Len(stack') = Len(stack) - 1
            /\ UNCHANGED <<visitedUrls, dirs, textFile, imgFile, web, imgWeb,
                           hist, fetchLog>>]_vars
    /\ [][(outcome = "running" /\ Top.pc = "entry" /\ ~ AtSkip) =>
            /\ Len(stack') = Len(stack)
            /\ stack'[Len(stack)].pc = "fetch"
            /\ Top.url \in visitedUrls']_vars

\* a URL that was skipped for its depth alone has been fetched later, at a
\* smaller depth
C11_Witness ==
    \E u \in cut : hist[u].fetch = 1 /\ hist[u].depth < maxRekrusion - 1

\* the links of the page of invocation k of the stack
LinksOf(k) == web[stack[k].url].links

\* the innermost invocation is at a link of its page
AtLink ==
    /\ outcome = "running"
    /\ Top.pc = "links"
    /\ Top.i <= Len(LinksOf(Len(stack)))

\* C12: recursion is depth-first and pre-order.  Every invocation with an
\* active callee is in its link loop, and the callee is the invocation of the
\* link the loop is at; the loop of an invocation moves on, by one link, only
\* when no callee of it is active any more; and the link the loop is at gets a
\* recursive call exactly when it is not in the Visited Set at that moment.
C12_DepthFirstPreOrder ==
    /\ [](\A k \in 1..(Len(stack) - 1) :
            /\ stack[k].pc = "links"
            /\ stack[k].i \in 1..Len(LinksOf(k))
            /\ stack[k + 1].url = LinksOf(k)[stack[k].i])
    /\ [][\A k \in 1..Len(stack) :
            (k <= Len(stack') /\ stack[k].pc = "links"
               /\ stack'[k].pc = "links" /\ stack'[k].i # stack[k].i)
            => (stack'[k].i = stack[k].i + 1 /\ Len(stack') = k)]_vars
    /\ [][AtLink =>
            LET link == LinksOf(Len(stack))[Top.i]
            IN  IF link \in visitedUrls
                THEN /\ Len(stack') = Len(stack)
                     /\ stack'[Len(stack)].i = Top.i + 1
                     /\ hist' = hist
                ELSE /\ Len(stack') = Len(stack) + 1
                     /\ stack'[Len(stack')].url = link
                     /\ stack'[Len(stack')].pc = "entry"
                     /\ \A k \in 1..Len(stack) : stack'[k] = stack[k]]_vars

\* the seed invocation is at a link that is not its first and that was
\* visited two levels down, in the subtree of an earlier link
C12_Witness ==
    /\ AtLink
    /\ Len(stack) = 1
    /\ Top.i >= 2
    /\ LET link == LinksOf(1)[Top.i]
       IN  /\ link \in visitedUrls
           /\ link # Top.url
           /\ hist[link].fetch = 1
           /\ hist[link].depth = 2

\* C13: within one page the steps are ordered.  While its invocation has not
\* stored the text, no image fetch has been dispatched and no recursive call
\* made for the page; while it is in its image loop at image i, the text is
\* written, the fetches dispatched are those of images 1..i-1, in document order
\* and one each, and no recursive call has been made; once it is in its link
\* loop, one fetch has been dispatched for every image of the page, duplicates
\* included.  So a page with a recursive call has had all its images dispatched.
C13_PageStepsOrdered ==
    /\ \A k \in 1..Len(stack) :
         LET f == stack[k]
             h == hist[f.url]
             imgs == web[f.url].imgs
         IN  /\ f.pc \in {"fetch", "text"} =>
                  (h.text = 0 /\ h.sent = <<>> /\ h.calls = 0)
             /\ f.pc = "imgs" =>
                  /\ h.text = 1
                  /\ f.i \in 1..Len(imgs)
                  /\ h.sent = SubSeq(imgs, 1, f.i - 1)
                  /\ h.calls = 0
             /\ f.pc = "links" => (h.text = 1 /\ h.sent = imgs)
    /\ \A u \in Urls :
         /\ hist[u].img = Len(hist[u].sent)
         /\ hist[u].sent # <<>> => hist[u].text = 1
         /\ hist[u].calls > 0 => (hist[u].text = 1 /\ hist[u].sent = web[u].imgs)

\* an invocation has been called from a page that holds the same image twice
C13_Witness ==
    /\ outcome = "running"
    /\ Len(stack) >= 2
    /\ Top.pc = "entry"
    /\ LET u == stack[Len(stack) - 1].url
       IN  /\ Len(web[u].imgs) = 2
           /\ web[u].imgs[1] = web[u].imgs[2]
           /\ hist[u].sent = web[u].imgs

\* the page GETs whose page has been through its text step: all of the log but
\* the GET of an invocation that has parsed its page and not yet stored the text
Processed ==
    IF outcome = "running" /\ Top.pc = "text"
    THEN SubSeq(fetchLog, 1, Len(fetchLog) - 1)
    ELSE fetchLog

\* the positions of the successful GETs at depth d
OkAt(log, d) == { n \in 1..Len(log) : log[n].ok /\ log[n].depth = d }

Last(S) == CHOOSE n \in S : \A m \in S : m <= n

TextPath(d) == Join(Join(get_domain_folder(seed), "text"), d)

\* C14: text files are keyed by depth only.  At every point of a crawl the text
\* files are exactly the files page_<d> under the seed's site root for the
\* depths d at which a page has been fetched successfully and processed, and
\* the file of depth d holds the text of the last such page (last write wins).
C14_TextKeyedByDepth ==
    outcome # "idle" =>
      /\ Paths(textFile) =
           { TextPath(d) : d \in { e \in 0..maxRekrusion : OkAt(Processed, e) # {} } }
      /\ \A f \in textFile :
           \E d \in 0..maxRekrusion :
             /\ f.path = TextPath(d)
             /\ OkAt(Processed, d) # {}
             /\ f.content = PageText(Processed[Last(OkAt(Processed, d))].url)

\* two different pages have been stored at one depth, and the file holds the later
C14_Witness ==
    \E d \in 0..maxRekrusion :
      /\ Cardinality(OkAt(Processed, d)) >= 2
      /\ \E n \in OkAt(Processed, d) :
           Processed[n].url # Processed[Last(OkAt(Processed, d))].url
      /\ \E f \in textFile :
           /\ f.path = TextPath(d)
           /\ f.content = PageText(Processed[Last(OkAt(Processed, d))].url)

SiteRoot == get_domain_folder(seed)

Under(root, path) == Len(path) >= Len(root) /\ SubSeq(path, 1, Len(root)) = root

PastGate == { k \in 1..Len(stack) : stack[k].pc # "entry" }

\* C16 as stated: the number of simultaneously active scrape invocations,
\* skipped ones included while they are running, never exceeds the maximum depth.
C16_StackWithinMax == Len(stack) <= maxRekrusion

\* C16, amended: the number of simultaneously active scrape invocations never
\* exceeds the maximum depth plus one, and the number of those that have passed
\* the gate never exceeds the maximum depth; when the maximum depth plus one
\* are active, the innermost one is at the maximum depth and has not passed
\* the gate.
C16_StackWithinMaxPlusOne ==
    /\ Len(stack) <= maxRekrusion + 1
    /\ Cardinality(PastGate) <= maxRekrusion
    /\ Len(stack) = maxRekrusion + 1 =>
         (Top.pc = "entry" /\ Top.depth = maxRekrusion)

\* an invocation at the maximum depth is active above a full chain of callers
C16_Witness ==
    /\ outcome = "running"
    /\ Len(stack) = maxRekrusion + 1
    /\ Cardinality(PastGate) = maxRekrusion
    /\ Top.url \notin visitedUrls

\* C17: the depth of an invocation is the number of link hops along its call
\* chain from the seed.  The outermost invocation is the seed's, at depth 0;
\* every other active invocation is for the link its caller is at and has
\* depth one more than its caller, so the k-th active invocation has depth k-1;
\* and a page is fetched and its text stored under the depth of the invocation
\* that passed the gate for it, which is the length of that call chain.
C17_DepthIsHops ==
    /\ [](outcome = "running" =>
            /\ stack[1].url = seed
            /\ \A k \in 1..Len(stack) : stack[k].depth = k - 1
            /\ \A k \in 1..(Len(stack) - 1) :
                 /\ stack[k + 1].url = LinksOf(k)[stack[k].i]
                 /\ stack[k + 1].depth = stack[k].depth + 1)
    /\ [][fetchLog' # fetchLog /\ outcome = "running" =>
            /\ fetchLog'[Len(fetchLog')].depth = Len(stack) - 1
            /\ hist'[Top.url].depth = Len(stack) - 1]_vars
    /\ [][textFile' # textFile /\ outcome = "running" =>
            /\ hist[Top.url].depth = Len(stack) - 1
            /\ \E f \in textFile' :
                 /\ f.path = Join(Join(Top.base_folder, "text"), Len(stack) - 1)
                 /\ f.content = PageText(Top.url)]_vars

\* a page stored at depth 2, reached through another page, that the seed's page
\* links to as well
C17_Witness ==
    /\ outcome = "running"
    /\ Len(stack) = 3
    /\ Top.pc \in {"imgs", "links"}
    /\ hist[Top.url].depth = 2
    /\ \E n \in 1..Len(LinksOf(1)) : LinksOf(1)[n] = Top.url
    /\ \E f \in textFile : f.path = TextPath(2) /\ f.content = PageText(Top.url)

\* the URLs a page GET has been issued for
FetchedUrls == { u \in Urls : hist[u].fetch >= 1 }

\* the URLs of the invocations that have marked their URL and are about to
\* issue the GET
AboutToFetch == { stack[k].url : k \in { n \in 1..Len(stack) : stack[n].pc = "fetch" } }

\* C18: the Visited Set records exactly the URLs fetched.  At every moment a
\* URL is in the Visited Set if and only if a page GET has been issued for it
\* or the invocation that just marked it is about to issue it; that invocation
\* is the innermost one and no GET has been issued for its URL.  When the crawl
\* has ended, the Visited Set is the set of URLs with exactly one GET.
C18_VisitedIsFetched ==
    /\ visitedUrls = FetchedUrls \cup AboutToFetch
    /\ \A k \in 1..Len(stack) :
         stack[k].pc = "fetch" => (k = Len(stack) /\ hist[stack[k].url].fetch = 0)
    /\ Finished => visitedUrls = { u \in Urls : hist[u].fetch = 1 }

\* a crawl has ended with three URLs visited, one of which could not be fetched
C18_Witness ==
    /\ outcome = "done"
    /\ Cardinality(visitedUrls) >= 3
    /\ \E u \in visitedUrls : web[u].known /\ ~ web[u].ok
    /\ visitedUrls # Urls

\* C19: the Visited Set is empty at crawl start and only grows.  Before the
\* seed invocation is made the set is empty, and no step of a crawl (gate,
\* fetch, text, image, call or return) takes a URL out of it.
C19_VisitedOnlyGrows ==
    /\ [](outcome = "idle" => visitedUrls = {})
    /\ [][visitedUrls \subseteq visitedUrls']_vars

\* three URLs are visited after an image has been saved and an invocation has
\* been turned away at the gate, and the crawl is still under way
C19_Witness ==
    /\ outcome = "running"
    /\ Cardinality(visitedUrls) >= 3
    /\ imgFile # {}
    /\ cut # {}

=============================================================================
